---- MODULE Spec2Model ----
(***************************************************************************)
(* A model of the GeoIP legacy database reader of ipcap                    *)
(* (src/src/geo_ip_reader.rs, src/src/utils.rs, src/src/constants.rs).     *)
(*                                                                         *)
(* A database file is a sequence of bytes.  A reader holds a seekable      *)
(* byte source (contents + stream position) and the four fields the        *)
(* edition detector and the tree search maintain.  Every public method is  *)
(* one action; its body is the operator of the same name, translated       *)
(* statement by statement.  An `unwrap()` on an error and an out-of-range  *)
(* index are panics: the method yields "Panic" and the reader is gone.     *)
(*                                                                         *)
(* Numbers wider than 31 bits (u32 and u128 addresses) are kept as         *)
(* sequences of 16-bit limbs, most significant limb first.                 *)
(***************************************************************************)
EXTENDS Integers, Sequences, FiniteSets, TLC

VARIABLES disk, reader, pc, last

vars == <<disk, reader, pc, last>>

(***************************************************************************)
(* src/src/constants.rs                                                    *)
(***************************************************************************)
COUNTRY_BEGIN == 16776960
STATE_BEGIN_REV0 == 16700000
STATE_BEGIN_REV1 == 16000000
STRUCTURE_INFO_MAX_SIZE == 20
COUNTRY_EDITION == 1
COUNTRY_EDITION_V6 == 12
REGION_EDITION_REV0 == 7
REGION_EDITION_REV1 == 3
CITY_EDITION_REV0 == 6
CITY_EDITION_REV1 == 2
CITY_EDITION_REV1_V6 == 30
ORG_EDITION == 5
ISP_EDITION == 4
ASNUM_EDITION == 9
ASNUM_EDITION_V6 == 21
SEGMENT_RECORD_LENGTH == 3
STANDARD_RECORD_LENGTH == 3
ORG_RECORD_LENGTH == 4
FULL_RECORD_LENGTH == 50

(***************************************************************************)
(* Option<T>: None is the empty tuple, Some(v) the one-element tuple.      *)
(***************************************************************************)
None == << >>
Some(v) == <<v>>

Pow2(n) == 2 ^ n

\* read little-endian: the sum of buf[at + j] << (8 * j) for j in 0..n-1,
\* `at` counted from 0 as in the source.
RECURSIVE le_sum(_, _, _)
le_sum(buf, at, n) ==
    IF n = 0 THEN 0
    ELSE le_sum(buf, at, n - 1) + buf[at + n] * Pow2(8 * (n - 1))

(***************************************************************************)
(* std::io::{Read, Seek} on the byte source fp = [data, pos].              *)
(***************************************************************************)
\* Seek::seek: the new position, or an error when it would be negative.
seek(fp, whence, off) ==
    LET base == CASE whence = "Start" -> 0
                  [] whence = "Current" -> fp.pos
                  [] whence = "End" -> Len(fp.data)
        to == base + off
    IN  IF to < 0 THEN [ok |-> FALSE, fp |-> fp]
        ELSE [ok |-> TRUE, fp |-> [fp EXCEPT !.pos = to]]

\* Read::read_exact of n bytes: an error (UnexpectedEof) when fewer remain.
read_exact(fp, n) ==
    IF fp.pos + n > Len(fp.data)
    THEN [ok |-> FALSE, buf |-> << >>, fp |-> fp]
    ELSE [ok |-> TRUE,
          buf |-> SubSeq(fp.data, fp.pos + 1, fp.pos + n),
          fp |-> [fp EXCEPT !.pos = fp.pos + n]]

\* Read::take(n).read_to_end: the bytes that remain, at most n, never an error.
take_read_to_end(fp, n) ==
    LET avail == IF fp.pos >= Len(fp.data) THEN 0 ELSE Len(fp.data) - fp.pos
        got == IF avail < n THEN avail ELSE n
    IN  SubSeq(fp.data, fp.pos + 1, fp.pos + got)

(***************************************************************************)
(* GeoIpReader::detect_database_type                                       *)
(***************************************************************************)
\* Fault injection for C4: the adjustment threshold off by one.
AdjustDatabaseType_OffByOne(byte) == IF byte > 106 THEN byte - 105 ELSE byte

\* `if self.database_type >= 106 { self.database_type -= 105 }`
AdjustDatabaseType(byte) == IF byte >= 106 THEN byte - 105 ELSE byte

SegmentEditions ==
    {CITY_EDITION_REV0, CITY_EDITION_REV1, CITY_EDITION_REV1_V6, ORG_EDITION,
     ISP_EDITION, ASNUM_EDITION, ASNUM_EDITION_V6}

\* `long_records.contains(&self.database_type)`
LongRecords(database_type) == database_type \in {ORG_EDITION, ISP_EDITION}

\* Fault injection for C6: MAX_ORG_RECORD_LENGTH (300) taken for
\* ORG_RECORD_LENGTH.
RecordLengthFor_MaxOrg(database_type, current) ==
    IF LongRecords(database_type) THEN 300 ELSE current

\* `if long_records.contains(..) { self.record_length = ORG_RECORD_LENGTH }`
RecordLengthFor(database_type, current) ==
    IF LongRecords(database_type) THEN ORG_RECORD_LENGTH ELSE current

\* The body of `if delimiter == chars { ... break }`; the stream stands
\* right after the three marker bytes.  `reads` counts the read_exact calls
\* issued.
MarkerFound(self) ==
    LET rb == read_exact(self.fp, 1)
    IN  IF ~rb.ok THEN [self |-> self, res |-> "Panic", reads |-> 1]
        ELSE
        LET ty == AdjustDatabaseType(rb.buf[1])
            s1 == [self EXCEPT !.fp = rb.fp, !.database_type = ty]
        IN  CASE ty = REGION_EDITION_REV0 ->
                   [self |-> [s1 EXCEPT !.database_segments = STATE_BEGIN_REV0],
                    res |-> "Ok", reads |-> 1]
              [] ty = REGION_EDITION_REV1 ->
                   [self |-> [s1 EXCEPT !.database_segments = STATE_BEGIN_REV1],
                    res |-> "Ok", reads |-> 1]
              [] ty \in SegmentEditions ->
                   LET rs == read_exact(s1.fp, SEGMENT_RECORD_LENGTH)
                   IN  IF ~rs.ok THEN [self |-> s1, res |-> "Panic", reads |-> 2]
                       ELSE [self |->
                               [s1 EXCEPT
                                  !.fp = rs.fp,
                                  !.database_segments =
                                      0 + le_sum(rs.buf, 0, SEGMENT_RECORD_LENGTH),
                                  !.record_length =
                                      RecordLengthFor(ty, s1.record_length)],
                             res |-> "Ok", reads |-> 2]
              [] OTHER -> [self |-> s1, res |-> "Ok", reads |-> 1]

\* The outcome r of the marker branch after n window reads.
AfterWindows(r, n) ==
    [self |-> r.self, res |-> r.res, reads |-> n + r.reads]

\* Fault injection for C27: the stream moved back five bytes, so that every
\* other window is skipped.
RECURSIVE ScanLoop_SkipsWindow(_, _)
ScanLoop_SkipsWindow(self, i) ==
    IF i = STRUCTURE_INFO_MAX_SIZE
    THEN [self |-> self, res |-> "Ok", reads |-> i]
    ELSE
    LET rd == read_exact(self.fp, 3)
    IN  IF ~rd.ok THEN [self |-> self, res |-> "Panic", reads |-> i + 1]
        ELSE IF rd.buf = <<255, 255, 255>>
        THEN AfterWindows(MarkerFound([self EXCEPT !.fp = rd.fp]), i + 1)
        ELSE LET sk == seek(rd.fp, "Current", -5)
             IN  IF ~sk.ok
                 THEN [self |-> self, res |-> "Panic", reads |-> i + 1]
                 ELSE ScanLoop_SkipsWindow([self EXCEPT !.fp = sk.fp], i + 1)

\* `for _ in 0..STRUCTURE_INFO_MAX_SIZE { ... }`, i iterations done, each of
\* which has read one three-byte window.
RECURSIVE ScanLoop(_, _)
ScanLoop(self, i) ==
    IF i = STRUCTURE_INFO_MAX_SIZE
    THEN [self |-> self, res |-> "Ok", reads |-> i]
    ELSE
    LET rd == read_exact(self.fp, 3)
    IN  IF ~rd.ok THEN [self |-> self, res |-> "Panic", reads |-> i + 1]
        ELSE IF rd.buf = <<255, 255, 255>>
        THEN AfterWindows(MarkerFound([self EXCEPT !.fp = rd.fp]), i + 1)
        ELSE LET sk == seek(rd.fp, "Current", -4)
             IN  IF ~sk.ok
                 THEN [self |-> self, res |-> "Panic", reads |-> i + 1]
                 ELSE ScanLoop([self EXCEPT !.fp = sk.fp], i + 1)

\* The defaults the detector starts from.
DetectDefaults(self) ==
    [self EXCEPT !.database_type = COUNTRY_EDITION,
                 !.record_length = STANDARD_RECORD_LENGTH,
                 !.database_segments = COUNTRY_BEGIN]

\* Fault injection for C26: the stream left where the scan ended.
RestorePosition_Skipped(sc, file_position) == sc

\* `self.fp.seek(SeekFrom::Start(file_position))` and `Ok(())` once the scan
\* `sc` has ended.
RestorePosition(sc, file_position) ==
    IF sc.res # "Ok" THEN sc
    ELSE [self |-> [sc.self EXCEPT
                      !.fp = seek(sc.self.fp, "Start", file_position).fp],
          res |-> "Ok", reads |-> sc.reads]

detect_database_type(self) ==
    LET s0 == DetectDefaults(self)
        file_position == s0.fp.pos
        se == seek(s0.fp, "End", -3)
    IN  IF ~se.ok THEN [self |-> s0, res |-> "Panic", reads |-> 0]
        ELSE RestorePosition(ScanLoop([s0 EXCEPT !.fp = se.fp], 0),
                             file_position)

(***************************************************************************)
(* GeoIpReader::new: File::open of the fixed path, then the detector.      *)
(* `file` is what the path holds: [exists, data].                          *)
(***************************************************************************)
\* The reader `new` builds before it runs the detector.
Constructed(data) ==
    [fp |-> [data |-> data, pos |-> 0],
     netmask |-> 0,
     database_type |-> 0,
     record_length |-> 3,
     database_segments |-> 0]

\* res is "Ok", "Err" for Err(GeoIpReaderError::OpenFileError), or "Panic".
new(file) ==
    IF ~file.exists
    THEN [self |-> Constructed(<< >>), res |-> "Err", reads |-> 0]
    ELSE detect_database_type(Constructed(file.data))

(***************************************************************************)
(* utils::ip_to_number.  An address argument is the outcome of             *)
(* str::parse::<Ipv4Addr>() and str::parse::<Ipv6Addr>() on the text:      *)
(* kind "v4" with its four octets, kind "v6" with its eight 16-bit         *)
(* segments, or kind "invalid" when both parses fail.  The u128 result is  *)
(* eight 16-bit limbs, most significant first.                             *)
(***************************************************************************)
\* Fault injection for C14: the octets taken in little-endian order.
Ipv4ToU128_LittleEndian(o) ==
    <<0, 0, 0, 0, 0, 0, o[4] * 256 + o[3], o[2] * 256 + o[1]>>

\* u128::from(u32::from(ipv4_addr))
Ipv4ToU128(o) == <<0, 0, 0, 0, 0, 0, o[1] * 256 + o[2], o[3] * 256 + o[4]>>

\* Fault injection for C15: segments[2] shifted by 80.
Ipv6ToU128_Shift80(s) == <<s[1], s[2], s[3], 0, 0, 0, 0, s[4]>>

\* (segments[0] << 112) | (segments[1] << 96) | (segments[2] << 64) | segments[3]
Ipv6ToU128(s) == <<s[1], s[2], 0, s[3], 0, 0, 0, s[4]>>

\* Fault injection for C17: an unparsable text taken as address 0.
ip_to_number_ZeroOnInvalid(ip) ==
    CASE ip.kind = "v4" -> [ok |-> TRUE, val |-> Ipv4ToU128(ip.parts)]
      [] ip.kind = "v6" -> [ok |-> TRUE, val |-> Ipv6ToU128(ip.parts)]
      [] OTHER -> [ok |-> TRUE, val |-> <<0, 0, 0, 0, 0, 0, 0, 0>>]

\* ok is FALSE for `panic!("Invalid IP address: {}", ip)`.
ip_to_number(ip) ==
    CASE ip.kind = "v4" -> [ok |-> TRUE, val |-> Ipv4ToU128(ip.parts)]
      [] ip.kind = "v6" -> [ok |-> TRUE, val |-> Ipv6ToU128(ip.parts)]
      [] OTHER -> [ok |-> FALSE, val |-> << >>]

\* u128 -> u32 by TryInto: an error unless the value fits in 32 bits.
\* The u32 is two 16-bit limbs <<high, low>>.
TryIntoU32(n) ==
    IF \A k \in 1..6 : n[k] = 0
    THEN [ok |-> TRUE, val |-> <<n[7], n[8]>>]
    ELSE [ok |-> FALSE, val |-> << >>]

(***************************************************************************)
(* GeoIpReader::get_country                                                *)
(***************************************************************************)
\* u32 / 10 on the limbs.
DivTen(n) ==
    <<n[1] \div 10, ((n[1] % 10) * 65536 + n[2]) \div 10>>

\* `ip_number.to_string().len()`: the number of decimal digits.
RECURSIVE DecimalLen(_)
DecimalLen(n) ==
    IF DivTen(n) = <<0, 0>> THEN 1 ELSE 1 + DecimalLen(DivTen(n))

\* `if ip_number.to_string().len() > 10 { 127 } else { 31 }`
SeekDepth(ip_number) == IF DecimalLen(ip_number) > 10 THEN 127 ELSE 31

\* `ip_number & (1 << depth) != 0` for depth < 32.
BitSet(ip_number, depth) ==
    IF depth >= 16
    THEN (ip_number[1] \div Pow2(depth - 16)) % 2 = 1
    ELSE (ip_number[2] \div Pow2(depth)) % 2 = 1

\* One node read: a fresh reader is opened on the path (GeoIpReader::new),
\* sought to start_index, and at most read_length bytes are taken from it.
\* `opened` is what GeoIpReader::new() yields on the file at the path; the
\* file does not change while one lookup runs, so it is the same at each node.
NodeRead(opened, start_index, read_length) ==
    IF opened.res # "Ok" THEN [ok |-> FALSE, buf |-> << >>]
    ELSE [ok |-> TRUE,
          buf |-> take_read_to_end(
                      seek(opened.self.fp, "Start", start_index).fp,
                      read_length)]

\* x[i] for i in 0..1: `x[i] += byte << (j * 8)` over the node's bytes.
NodeChild(self, buf, i) == le_sum(buf, self.record_length * i, self.record_length)

\* Fault injection for C2: the two children exchanged.
ChosenChild_Swapped(self, buf, ip_number, depth) ==
    IF BitSet(ip_number, depth) THEN NodeChild(self, buf, 0)
    ELSE NodeChild(self, buf, 1)

\* The child the address bit selects: x[1] when the bit is set, else x[0].
ChosenChild(self, buf, ip_number, depth) ==
    IF BitSet(ip_number, depth) THEN NodeChild(self, buf, 1)
    ELSE NodeChild(self, buf, 0)

\* `if x[..] >= self.database_segments { ... return Ok(..) }`
IsTerminal(self, child) == child >= self.database_segments

\* `self.netmask = seek_depth - depth + 1`
Netmask(seek_depth, depth) == seek_depth - depth + 1

\* `for depth in (0..=seek_depth).rev() { ... }` from `depth` downwards with
\* the node index `offset`; reads counts the node reads made so far.
RECURSIVE Descend(_, _, _, _, _, _, _)
Descend(self, opened, ip_number, seek_depth, depth, offset, reads) ==
    IF depth < 0
    THEN [self |-> self, tag |-> "Err", val |-> 0,
          seek_depth |-> seek_depth, reads |-> reads]
    ELSE
    LET start_index == 2 * self.record_length * offset
        read_length == 2 * self.record_length
        nd == NodeRead(opened, start_index, read_length)
    IN  IF ~nd.ok \/ Len(nd.buf) < read_length \/ depth >= 32
        THEN [self |-> self, tag |-> "Panic", val |-> 0,
              seek_depth |-> seek_depth, reads |-> reads + 1]
        ELSE
        LET child == ChosenChild(self, nd.buf, ip_number, depth)
        IN  IF IsTerminal(self, child)
            THEN [self |-> [self EXCEPT !.netmask = Netmask(seek_depth, depth)],
                  tag |-> "Ok", val |-> child,
                  seek_depth |-> seek_depth, reads |-> reads + 1]
            ELSE Descend(self, opened, ip_number, seek_depth, depth - 1, child,
                         reads + 1)

\* What the traversal d cost besides its node reads: each iteration of the
\* loop starts with `GeoIpReader::<File>::new().unwrap()`, one more open of
\* the path and one more run of the detector with its reads of the trailer.
Traversal(d, opened) ==
    [self |-> d.self, tag |-> d.tag, val |-> d.val,
     seek_depth |-> d.seek_depth, reads |-> d.reads,
     opens |-> d.reads, detector_reads |-> d.reads * opened.reads]

\* Result: tag "Ok" with the offset in val, tag "Err" for
\* Err(GeoIpReaderError::CorruptDatabase), or tag "Panic".
get_country(self, file, ip_number) ==
    LET opened == new(file)
        seek_depth == SeekDepth(ip_number)
    IN  Traversal(Descend(self, opened, ip_number, seek_depth, seek_depth, 0, 0),
                  opened)

(***************************************************************************)
(* utils::read_data                                                        *)
(***************************************************************************)
\* `while buffer[cur] != 0 { cur += 1 }`: the index of the first zero byte at
\* or after cur, or -1 when the index runs off the buffer (a panic).
RECURSIVE ScanToNul(_, _)
ScanToNul(buffer, cur) ==
    IF cur >= Len(buffer) THEN -1
    ELSE IF buffer[cur + 1] = 0 THEN cur
    ELSE ScanToNul(buffer, cur + 1)

\* String::from_utf8_lossy as code points: an ASCII byte is its own code
\* point, a byte that can be no part of a UTF-8 sequence becomes U+FFFD.
\* (Exact for ASCII and for 0xF8..0xFF; the databases of the model hold no
\* other byte inside a string.)
from_utf8_lossy(bytes) ==
    [k \in 1..Len(bytes) |-> IF bytes[k] < 128 THEN bytes[k] ELSE 65533]

\* Fault injection for C12: `cur >= pos` written for `cur > pos`.
read_data_EmptyIsSome(buffer, pos) ==
    LET cur == ScanToNul(buffer, pos)
    IN  IF cur < 0 THEN [ok |-> FALSE, pos |-> pos, data |-> None]
        ELSE [ok |-> TRUE, pos |-> cur,
              data |-> Some(from_utf8_lossy(SubSeq(buffer, pos + 1, cur)))]

\* Fault injection for C13: the scan stops at the end of the buffer.
read_data_StopsAtEnd(buffer, pos) ==
    LET cur == ScanToNul(buffer, pos)
    IN  IF cur < 0 THEN [ok |-> TRUE, pos |-> Len(buffer), data |-> None]
        ELSE [ok |-> TRUE, pos |-> cur,
              data |-> IF cur > pos
                       THEN Some(from_utf8_lossy(SubSeq(buffer, pos + 1, cur)))
                       ELSE None]

\* ok is FALSE for the index-out-of-bounds panic of `buffer[cur]`.
read_data(buffer, pos) ==
    LET cur == ScanToNul(buffer, pos)
    IN  IF cur < 0 THEN [ok |-> FALSE, pos |-> pos, data |-> None]
        ELSE [ok |-> TRUE, pos |-> cur,
              data |-> IF cur > pos
                       THEN Some(from_utf8_lossy(SubSeq(buffer, pos + 1, cur)))
                       ELSE None]

(***************************************************************************)
(* The per-country tables, indexed by the record's first byte.             *)
(***************************************************************************)
COUNTRY_CODES_THREE ==
    <<"", "AP", "EU", "AND", "ARE", "AFG", "ATG", "AIA", "ALB", "ARM", "ANT",
      "AGO", "AQ", "ARG", "ASM", "AUT", "AUS", "ABW", "AZE", "BIH", "BRB",
      "BGD", "BEL", "BFA", "BGR", "BHR", "BDI", "BEN", "BMU", "BRN", "BOL",
      "BRA", "BHS", "BTN", "BV", "BWA", "BLR", "BLZ", "CAN", "CC", "COD",
      "CAF", "COG", "CHE", "CIV", "COK", "CHL", "CMR", "CHN", "COL", "CRI",
      "CUB", "CPV", "CX", "CYP", "CZE", "DEU", "DJI", "DNK", "DMA", "DOM",
      "DZA", "ECU", "EST", "EGY", "ESH", "ERI", "ESP", "ETH", "FIN", "FJI",
      "FLK", "FSM", "FRO", "FRA", "FX", "GAB", "GBR", "GRD", "GEO", "GUF",
      "GHA", "GIB", "GRL", "GMB", "GIN", "GLP", "GNQ", "GRC", "GS", "GTM",
      "GUM", "GNB", "GUY", "HKG", "HM", "HND", "HRV", "HTI", "HUN", "IDN",
      "IRL", "ISR", "IND", "IO", "IRQ", "IRN", "ISL", "ITA", "JAM", "JOR",
      "JPN", "KEN", "KGZ", "KHM", "KIR", "COM", "KNA", "PRK", "KOR", "KWT",
      "CYM", "KAZ", "LAO", "LBN", "LCA", "LIE", "LKA", "LBR", "LSO", "LTU",
      "LUX", "LVA", "LBY", "MAR", "MCO", "MDA", "MDG", "MHL", "MKD", "MLI",
      "MMR", "MNG", "MAC", "MNP", "MTQ", "MRT", "MSR", "MLT", "MUS", "MDV",
      "MWI", "MEX", "MYS", "MOZ", "NAM", "NCL", "NER", "NFK", "NGA", "NIC",
      "NLD", "NOR", "NPL", "NRU", "NIU", "NZL", "OMN", "PAN", "PER", "PYF",
      "PNG", "PHL", "PAK", "POL", "SPM", "PCN", "PRI", "PSE", "PRT", "PLW",
      "PRY", "QAT", "REU", "ROU", "RUS", "RWA", "SAU", "SLB", "SYC", "SDN",
      "SWE", "SGP", "SHN", "SVN", "SJM", "SVK", "SLE", "SMR", "SEN", "SOM",
      "SUR", "STP", "SLV", "SYR", "SWZ", "TCA", "TCD", "TF", "TGO", "THA",
      "TJK", "TKL", "TKM", "TUN", "TON", "TLS", "TUR", "TTO", "TUV", "TWN",
      "TZA", "UKR", "UGA", "UM", "USA", "URY", "UZB", "VAT", "VCT", "VEN",
      "VGB", "VIR", "VNM", "VUT", "WLF", "WSM", "YEM", "YT", "SRB", "ZAF",
      "ZMB", "MNE", "ZWE", "A1", "A2", "O1", "ALA", "GGY", "IMN", "JEY",
      "BLM", "MAF", "BES", "SSD">>

CONTINENT_NAMES ==
    <<"--", "AS", "EU", "EU", "AS", "AS", "NA", "NA", "EU", "AS", "NA", "AF",
      "AN", "SA", "OC", "EU", "OC", "NA", "AS", "EU", "NA", "AS", "EU", "AF",
      "EU", "AS", "AF", "AF", "NA", "AS", "SA", "SA", "NA", "AS", "AN", "AF",
      "EU", "NA", "NA", "AS", "AF", "AF", "AF", "EU", "AF", "OC", "SA", "AF",
      "AS", "SA", "NA", "NA", "AF", "AS", "AS", "EU", "EU", "AF", "EU", "NA",
      "NA", "AF", "SA", "EU", "AF", "AF", "AF", "EU", "AF", "EU", "OC", "SA",
      "OC", "EU", "EU", "NA", "AF", "EU", "NA", "AS", "SA", "AF", "EU", "NA",
      "AF", "AF", "NA", "AF", "EU", "AN", "NA", "OC", "AF", "SA", "AS", "AN",
      "NA", "EU", "NA", "EU", "AS", "EU", "AS", "AS", "AS", "AS", "AS", "EU",
      "EU", "NA", "AS", "AS", "AF", "AS", "AS", "OC", "AF", "NA", "AS", "AS",
      "AS", "NA", "AS", "AS", "AS", "NA", "EU", "AS", "AF", "AF", "EU", "EU",
      "EU", "AF", "AF", "EU", "EU", "AF", "OC", "EU", "AF", "AS", "AS", "AS",
      "OC", "NA", "AF", "NA", "EU", "AF", "AS", "AF", "NA", "AS", "AF", "AF",
      "OC", "AF", "OC", "AF", "NA", "EU", "EU", "AS", "OC", "OC", "OC", "AS",
      "NA", "SA", "OC", "OC", "AS", "AS", "EU", "NA", "OC", "NA", "AS", "EU",
      "OC", "SA", "AS", "AF", "EU", "EU", "AF", "AS", "OC", "AF", "AF", "EU",
      "AS", "AF", "EU", "EU", "EU", "AF", "EU", "AF", "AF", "SA", "AF", "NA",
      "AS", "AF", "NA", "AF", "AN", "AF", "AS", "AS", "OC", "AS", "AF", "OC",
      "AS", "EU", "NA", "OC", "AS", "AF", "EU", "AF", "OC", "NA", "SA", "AS",
      "EU", "NA", "SA", "NA", "NA", "AS", "OC", "OC", "OC", "AS", "AF", "EU",
      "AF", "AF", "EU", "AF", "--", "--", "--", "EU", "EU", "EU", "EU", "NA",
      "NA", "NA", "AF">>

\* The index of the United States in the per-country tables.
US_INDEX == 225

\* COUNTRY_CODES_TWO[char]: the alpha-2 code of the country with that index,
\* kept symbolic; the code "US" is the one at US_INDEX.
COUNTRY_CODES_TWO(char) == <<"alpha2", char>>

\* COUNTRY_NAMES[char], kept symbolic.
COUNTRY_NAMES(char) == <<"name", char>>

\* The tables are arrays of 255 entries: an index beyond them is a panic.
TableIndexOk(char) == char < Len(COUNTRY_CODES_THREE)

\* DMAS.get(&dma_code): the entries the repository's tests and examples show.
DMAS_get(dma_code) ==
    CASE dma_code = 825 -> Some("San Diego, CA")
      [] dma_code = 807 -> Some("San Francisco, CA")
      [] OTHER -> None

\* The text "default", as the code points of its characters.
DefaultKey == <<100, 101, 102, 97, 117, 108, 116>>

\* The static (country alpha-2, region) -> zone mapping: the entries for the
\* United States with region "CA", and the per-country default entries of
\* Saudi Arabia and the United Kingdom.
TIME_ZONES ==
    [key \in {<<COUNTRY_CODES_TWO(US_INDEX), <<67, 65>>>>,
              <<COUNTRY_CODES_TWO(187), DefaultKey>>,
              <<COUNTRY_CODES_TWO(77), DefaultKey>>} |->
        CASE key[1] = COUNTRY_CODES_TWO(US_INDEX) -> "America/Los_Angeles"
          [] key[1] = COUNTRY_CODES_TWO(187) -> "Asia/Riyadh"
          [] OTHER -> "Europe/London"]

\* time_zones::time_zone_by_country(country, region, None): the entry of the
\* mapping, or None where it has none.
time_zone_by_country(country_code, region_code) ==
    IF <<country_code, region_code>> \in DOMAIN TIME_ZONES
    THEN Some(TIME_ZONES[<<country_code, region_code>>])
    ELSE None

(***************************************************************************)
(* DesignatedMarketArea(pub u32): the packed value is two 16-bit limbs     *)
(* <<high, low>>; the codes fit a machine integer.                         *)
(***************************************************************************)
\* Fault injection for C19: the area code taken modulo 100.
area_code_Mod100(v) == ((v[1] % 1000) * 65536 + v[2]) % 100

\* `self.0 / 1000` by long division on the limbs.
dma_code(v) ==
    (v[1] \div 1000) * 65536 + ((v[1] % 1000) * 65536 + v[2]) \div 1000

\* `self.0 % 1000`
area_code(v) == ((v[1] % 1000) * 65536 + v[2]) % 1000

\* Fault injection for C22: no arm for a code without entry.
fmt_EmptyForUnknown(v) ==
    IF DMAS_get(dma_code(v)) = None THEN "" ELSE DMAS_get(dma_code(v))[1]

\* Display for DesignatedMarketArea: `let value = self.dma_code();` and the
\* generated match, one arm per entry and `_ => f.write_str("Unknown DMA")`.
fmt(v) ==
    IF DMAS_get(dma_code(v)) = None THEN "Unknown DMA"
    ELSE DMAS_get(dma_code(v))[1]

(***************************************************************************)
(* i32 -> String -> i32: a number's text is its decimal digits.            *)
(***************************************************************************)
RECURSIVE to_string(_)
to_string(n) ==
    IF n < 10 THEN <<n>> ELSE Append(to_string(n \div 10), n % 10)

RECURSIVE parse_i32(_)
parse_i32(digits) ==
    IF Len(digits) = 1 THEN digits[1]
    ELSE parse_i32(SubSeq(digits, 1, Len(digits) - 1)) * 10 + digits[Len(digits)]

(***************************************************************************)
(* GeoIpReader::get_record                                                 *)
(***************************************************************************)
\* HashMap::insert
Insert(map, key, value) == (key :> value) @@ map

\* HashMap::new()
EmptyMap == << >>

\* Fault injection for C20: the 24-bit value read as a signed one.
Degrees_Signed(raw) ==
    (IF raw >= 8388608 THEN raw - 16777216 ELSE raw) - 1800000

\* `(latitude as f64) / 10000.0 - 180.0`, in units of 1/10000 of a degree.
Degrees(raw) == raw - 1800000

\* `(2 * self.record_length - 1) * self.database_segments`
RecordBase(self) == (2 * self.record_length - 1) * self.database_segments

\* Fault injection for C10: the IPv6 city edition forgotten.
HasDma_NoV6(database_type, country_code) ==
    /\ database_type = CITY_EDITION_REV1
    /\ country_code = Some(COUNTRY_CODES_TWO(US_INDEX))

\* `self.database_type == CITY_EDITION_REV1 || .. == CITY_EDITION_REV1_V6`
\* `&& record.get("country_code").unwrap() == &Some("US".to_string())`
HasDma(database_type, country_code) ==
    /\ database_type \in {CITY_EDITION_REV1, CITY_EDITION_REV1_V6}
    /\ country_code = Some(COUNTRY_CODES_TWO(US_INDEX))

\* Fault injection for C9: the coordinates read from the terminator on.
CoordBase_NoSkip(p3) == p3

\* Where the coordinates start: `let offset = offset + 1` after the postal
\* code's terminator at p3.
CoordBase(p3) == p3 + 1

\* The DMA branch: `buffer[offset + j + 6]` for j in 0..3.
DmaFields(record, buffer, offset) ==
    LET dma_area == le_sum(buffer, offset + 6, 3)
        r1 == Insert(record, "dma_code", Some(to_string(dma_area \div 1000)))
        r2 == Insert(r1, "area_code", Some(to_string(dma_area % 1000)))
        found == DMAS_get(parse_i32(r2["dma_code"][1]))
    IN  Insert(r2, "metro_code",
               Some(IF found = None THEN "" ELSE found[1]))

\* The time-zone step at the end of get_record.
\* Fault injection for C11: an absent region probes with the empty text.
TimeZoneField_NoDefault(record) ==
    LET country_code == record["country_code"]
        region_code == record["region_code"]
        p0 == IF country_code = None THEN DefaultKey ELSE country_code[1]
        p1 == IF region_code = None THEN << >> ELSE region_code[1]
        tz == time_zone_by_country(p0, p1)
    IN  Insert(record, "time_zone", Some(IF tz = None THEN "" ELSE tz[1]))

TimeZoneField(record) ==
    LET country_code == record["country_code"]
        region_code == record["region_code"]
        p0 == IF country_code = None THEN DefaultKey ELSE country_code[1]
        p1 == IF region_code = None THEN DefaultKey ELSE region_code[1]
        tz == time_zone_by_country(p0, p1)
    IN  Insert(record, "time_zone", Some(IF tz = None THEN "" ELSE tz[1]))

\* The decoding of the 50-byte buffer, from `let mut record = HashMap::new()`
\* to the end; ok is FALSE when an index leaves a table or the buffer.
DecodeRecord(database_type, buffer) ==
    LET char == buffer[1]
        p1 == read_data(buffer, 1)
        p2 == read_data(buffer, p1.pos + 1)
        p3 == read_data(buffer, p2.pos + 1)
        offset == CoordBase(p3.pos)
        r0 == Insert(Insert(Insert(Insert(EmptyMap,
                  "dma_code", Some(to_string(0))),
                  "area_code", Some(to_string(0))),
                  "metro_code", None),
                  "postal_code", None)
        r1 == Insert(Insert(Insert(Insert(r0,
                  "country_code", Some(COUNTRY_CODES_TWO(char))),
                  "country_code3", Some(COUNTRY_CODES_THREE[char + 1])),
                  "country_name", Some(COUNTRY_NAMES(char))),
                  "continent", Some(CONTINENT_NAMES[char + 1]))
        r2 == Insert(Insert(Insert(r1,
                  "region_code", p1.data),
                  "city", p2.data),
                  "postal_code", p3.data)
        r3 == Insert(Insert(r2,
                  "latitude", Some(Degrees(le_sum(buffer, offset, 3)))),
                  "longitude", Some(Degrees(le_sum(buffer, offset + 3, 3))))
        dma == HasDma(database_type, r3["country_code"])
    IN  IF ~TableIndexOk(char) THEN [ok |-> FALSE, record |-> EmptyMap]
        ELSE IF ~p1.ok THEN [ok |-> FALSE, record |-> EmptyMap]
        ELSE IF ~p2.ok THEN [ok |-> FALSE, record |-> EmptyMap]
        ELSE IF ~p3.ok THEN [ok |-> FALSE, record |-> EmptyMap]
        ELSE IF offset + 5 >= Len(buffer) THEN [ok |-> FALSE, record |-> EmptyMap]
        ELSE IF dma /\ offset + 8 >= Len(buffer)
             THEN [ok |-> FALSE, record |-> EmptyMap]
        ELSE [ok |-> TRUE,
              record |-> TimeZoneField(
                             IF dma THEN DmaFields(r3, buffer, offset) ELSE r3)]

\* A get_record outcome.  descent is the get_country result when the tree
\* was searched; record_reads lists the <<offset, length>> of every read
\* made on the reader's own source.
RecordResult(self, tag, record, descent, record_reads) ==
    [self |-> self, tag |-> tag, record |-> record, descent |-> descent,
     record_reads |-> record_reads]

NoDescent ==
    [tag |-> "None", val |-> 0, seek_depth |-> 0, reads |-> 0, opens |-> 0,
     detector_reads |-> 0]

DescentOf(gc) ==
    [tag |-> gc.tag, val |-> gc.val, seek_depth |-> gc.seek_depth,
     reads |-> gc.reads, opens |-> gc.opens,
     detector_reads |-> gc.detector_reads]

\* Fault injection for C8: `<` written for `==`.
NoRecordAt_Less(self, seek_country) == seek_country < self.database_segments

\* Fault injection for C7: a seek relative to the current position.
RecordSeek_Current(fp, at) == seek(fp, "Current", at)

\* `seek_country == self.database_segments.try_into().unwrap()`
NoRecordAt(self, seek_country) == seek_country = self.database_segments

\* `self.fp.seek(SeekFrom::Start(seek_country as u64 + read_length as u64))`
RecordSeek(fp, at) == seek(fp, "Start", at)

\* From `self.fp.seek(SeekFrom::Start(..))` on: the record read and decode.
\* `Ok(record)` with the decoding `dec` of the buffer, or its panic.
Decoded(self, dec, descent, io) ==
    IF ~dec.ok THEN RecordResult(self, "Panic", EmptyMap, descent, io)
    ELSE RecordResult(self, "Ok", dec.record, descent, io)

ReadAndDecode(self, seek_country, descent) ==
    LET at == seek_country + RecordBase(self)
        sk == RecordSeek(self.fp, at)
        rd == read_exact(sk.fp, FULL_RECORD_LENGTH)
        io == <<<<at, FULL_RECORD_LENGTH>>>>
    IN  IF ~rd.ok THEN RecordResult(self, "Panic", EmptyMap, descent, io)
        ELSE Decoded([self EXCEPT !.fp = rd.fp],
                     DecodeRecord(self.database_type, rd.buf), descent, io)

\* get_record from the result `gc` of
\* `self.get_country(ip_to_number(ip_number).try_into().unwrap())` on:
\* `.unwrap()`, the no-record check, then the record.
AfterDescent(gc) ==
    IF gc.tag # "Ok"
    THEN RecordResult(gc.self, "Panic", EmptyMap, DescentOf(gc), << >>)
    ELSE IF NoRecordAt(gc.self, gc.val)
    THEN RecordResult(gc.self, "Ok", EmptyMap, DescentOf(gc), << >>)
    ELSE ReadAndDecode(gc.self, gc.val, DescentOf(gc))

get_record(self, file, ip) ==
    LET n == ip_to_number(ip)
        u == TryIntoU32(n.val)
    IN  IF ~n.ok THEN RecordResult(self, "Panic", EmptyMap, NoDescent, << >>)
        ELSE IF ~u.ok
        THEN RecordResult(self, "Panic", EmptyMap, NoDescent, << >>)
        ELSE AfterDescent(get_country(self, file, u.val))

(***************************************************************************)
(* GeoIpReader::get_time_zone_given_ip_addr:                               *)
(* `record.get("time_zone")?.clone()`                                      *)
(***************************************************************************)
\* `record.get("time_zone")?.clone()` on the outcome r of get_record.
TimeZoneOf(r) ==
    [self |-> r.self, tag |-> r.tag,
     val |-> IF r.tag = "Ok" /\ "time_zone" \in DOMAIN r.record
             THEN r.record["time_zone"] ELSE None]

get_time_zone_given_ip_addr(self, file, addr) ==
    TimeZoneOf(get_record(self, file, addr))

(***************************************************************************)
(* The databases and addresses the model is run on.                        *)
(***************************************************************************)
\* Number of tree nodes of a model database.
TreeNodes == 2
\* Longest run of bytes that follows the segment bytes of a trailer.
MaxTail == 18

\* v as n little-endian bytes.
LE(v, n) == [j \in 1..n |-> (v \div Pow2(8 * (j - 1))) % 256]

RECURSIVE Flatten(_)
Flatten(ss) == IF ss = << >> THEN << >> ELSE Head(ss) \o Flatten(Tail(ss))

Fill(byte, n) == [j \in 1..n |-> byte]

\* A child value that lies in the record area of every edition.
BigChild == 16776961
\* A child value that names a node beyond the end of the file.
FarChild == 4000

\* The tree: node k is the pair nodes[k + 1] of child values.
TreeBytes(nodes, rl) ==
    Flatten([k \in 1..Len(nodes) |-> LE(nodes[k][1], rl) \o LE(nodes[k][2], rl)])

\* The shapes a node i of an n-node tree takes: its children continue to the
\* next node, loop, end without a record (the value n), end at the record
\* one byte into the record area (n + 1), or leave the file.
NodeShapes(i, n) ==
    {<<(i + 1) % n, n + 1>>, <<n + 1, (i + 1) % n>>, <<i, (i + 1) % n>>,
     <<n, FarChild>>, <<BigChild, n>>}

Trees(n) == {t \in [1..n -> UNION {NodeShapes(i, n) : i \in 0..(n - 1)}] :
                \A k \in 1..n : t[k] \in NodeShapes(k - 1, n)}

\* A city record: country index, three NUL-terminated strings, latitude,
\* longitude and DMA, padded with 0x41 to at least 50 bytes.
RecordBytes(country, region, city, postal, coords) ==
    LET body == <<country>> \o region \o <<0>> \o city \o <<0>> \o postal
                \o <<0>> \o coords
    IN  body \o Fill(65, IF Len(body) >= 52 THEN 0 ELSE 52 - Len(body))

SanDiego ==
    RecordBytes(US_INDEX, <<67, 65>>, <<83, 68>>, <<57, 50>>,
                <<105, 120, 32>> \o <<209, 147, 9>> \o <<2, 154, 12>>)

Coords == {<<105, 120, 32, 209, 147, 9, 2, 154, 12>>,
           <<255, 255, 254, 0, 0, 0, 255, 255, 254>>}

Records ==
    {RecordBytes(c, r, << >>, <<57>>, <<105, 120, 32, 209, 147, 9, 2, 154, 12>>) :
        c \in {0, 77, US_INDEX, 255}, r \in {<< >>, <<67, 65>>}}
    \cup {RecordBytes(US_INDEX, <<67, 65>>, ci, po, co) :
        ci \in {<< >>, <<83, 255>>, Fill(66, 39)},
        po \in {<< >>, <<57>>},
        co \in Coords}
    \cup {Fill(65, 52)}

\* The trailer: marker, edition byte, segment bytes, then `tail` bytes.  The
\* marker is the window STRUCTURE_INFO_MAX_SIZE - 1 of the scan when tail is
\* STRUCTURE_INFO_MAX_SIZE - 5, and out of its reach when tail is longer.
Trailer(type_byte, segments, tail) ==
    <<255, 255, 255, type_byte>> \o LE(segments, 3) \o Fill(1, tail)

\* tree, one byte of record area, the record, the trailer.
Database(nodes, rl, record, trailer) ==
    [exists |-> TRUE,
     data |-> TreeBytes(nodes, rl) \o <<0>> \o record \o trailer]

DefaultTree(n) == [k \in 1..n |-> IF k = 1 THEN <<1 % n, n + 1>> ELSE <<n, BigChild>>]

TypeBytes ==
    {0, 1, 2, 3, 4, 5, 6, 7, 8, 9, 11, 12, 21, 30, 105, 106, 107, 108, 109, 110,
     111, 112, 114, 117, 126, 135, 255}

TreeDatabases ==
    {Database(t, 3, SanDiego, Trailer(CITY_EDITION_REV1, TreeNodes, 0)) :
        t \in Trees(TreeNodes)}

RecordDatabases ==
    {Database(DefaultTree(TreeNodes), 3, r, Trailer(ty, TreeNodes, 0)) :
        r \in Records, ty \in {CITY_EDITION_REV1, CITY_EDITION_REV0,
                               CITY_EDITION_REV1_V6 + 105}}

TrailerDatabase(ty, tail) ==
    Database(DefaultTree(TreeNodes),
             IF LongRecords(AdjustDatabaseType(ty)) THEN 4 ELSE 3,
             SanDiego, Trailer(ty, TreeNodes, tail))

TrailerDatabases ==
    {TrailerDatabase(ty, 0) : ty \in TypeBytes}
    \cup {TrailerDatabase(ty, tail) :
             ty \in {CITY_EDITION_REV1, ORG_EDITION, REGION_EDITION_REV0 + 105},
             tail \in {STRUCTURE_INFO_MAX_SIZE - 5,
                       STRUCTURE_INFO_MAX_SIZE - 4, MaxTail}}

\* Files that are no well-formed database: short ones, ones without a
\* marker, ones cut right after the marker or after the edition byte.
OddFiles ==
    {[exists |-> TRUE, data |-> d] :
        d \in {Fill(0, 2), Fill(0, 3), Fill(0, 22), Fill(0, 23), Fill(7, 60),
               Fill(0, 30) \o <<255, 255, 255>>,
               Fill(0, 30) \o <<255, 255, 255, CITY_EDITION_REV1>>,
               Fill(0, 30) \o <<255, 255, 255, CITY_EDITION_REV1, 1>>,
               Fill(0, 30) \o <<255, 255, 255, 255, COUNTRY_EDITION, 0>>}}
    \cup {[exists |-> FALSE, data |-> << >>]}

\* Databases with two markers in the windows of the scan: a trailer
\* appended to a database that has one already.
TwoMarkerDatabases ==
    {[exists |-> TRUE,
      data |-> TrailerDatabase(far, 0).data \o Trailer(near, TreeNodes, 0)] :
        far \in {ORG_EDITION, CITY_EDITION_REV1},
        near \in {CITY_EDITION_REV1, REGION_EDITION_REV0}}

Databases ==
    TreeDatabases \cup RecordDatabases \cup TrailerDatabases
    \cup TwoMarkerDatabases \cup OddFiles

V4(a, b, c, d) == [kind |-> "v4", parts |-> <<a, b, c, d>>]
V6(s) == [kind |-> "v6", parts |-> s]
InvalidAddress == [kind |-> "invalid", parts |-> << >>]

Addresses ==
    {V4(0, 0, 0, 0), V4(128, 0, 0, 0), V4(64, 0, 0, 1),
     V6(<<0, 0, 0, 32768, 0, 0, 0, 1>>),
     V6(<<10760, 5200, 12303, 2304, 0, 0, 0, 4099>>),
     InvalidAddress}

\* u32 arguments of get_country, as <<high, low>> limbs.
IpNumbers == {<<256, 0>>, <<16384, 1>>, <<65535, 65535>>}

(***************************************************************************)
(* The state machine: one reader over the file at the fixed path.          *)
(***************************************************************************)
\* The reader variable while no reader exists.
NoReader == Constructed(<< >>)

NoResult == [op |-> "none"]

Init ==
    /\ disk \in Databases
    /\ reader = NoReader
    /\ pc = "Unopened"
    /\ last = NoResult

\* The reader's fields as a call finds them.
Before ==
    [pos |-> reader.fp.pos,
     database_type |-> reader.database_type,
     record_length |-> reader.record_length,
     database_segments |-> reader.database_segments]

\* A method that panicked unwinds the caller: the reader is gone.
After(res_tag, self) ==
    /\ pc' = IF res_tag = "Panic" \/ (pc = "Unopened" /\ res_tag # "Ok")
             THEN "Gone" ELSE "Ready"
    /\ reader' = IF res_tag = "Panic" \/ (pc = "Unopened" /\ res_tag # "Ok")
                 THEN NoReader ELSE self

\* A lookup ended with outcome r: the reader it leaves, and in `last` the
\* call, the fields it found and what it returned.
GetCountryReturns(ip_number, r) ==
    /\ After(r.tag, r.self)
    /\ last' = [op |-> "get_country", arg |-> ip_number,
                before |-> Before, tag |-> r.tag, val |-> r.val,
                seek_depth |-> r.seek_depth, reads |-> r.reads,
                opens |-> r.opens, detector_reads |-> r.detector_reads]

GetRecordReturns(ip, r) ==
    /\ After(r.tag, r.self)
    /\ last' = [op |-> "get_record", arg |-> ip, tag |-> r.tag,
                before |-> Before,
                record |-> r.record, descent |-> r.descent,
                record_reads |-> r.record_reads]

GetTimeZoneReturns(ip, r) ==
    /\ After(r.tag, r.self)
    /\ last' = [op |-> "get_time_zone_given_ip_addr", arg |-> ip,
                before |-> Before, tag |-> r.tag, val |-> r.val]

New ==
    /\ pc = "Unopened"
    /\ LET r == new(disk)
       IN  /\ After(r.res, r.self)
           /\ last' = [op |-> "new", tag |-> r.res, reads |-> r.reads]
    /\ UNCHANGED disk

DetectDatabaseType ==
    /\ pc = "Ready"
    /\ LET r == detect_database_type(reader)
       IN  /\ After(r.res, r.self)
           /\ last' = [op |-> "detect_database_type", tag |-> r.res,
                       before |-> Before, reads |-> r.reads]
    /\ UNCHANGED disk

GetCountry ==
    /\ pc = "Ready"
    /\ \E ip_number \in IpNumbers :
          GetCountryReturns(ip_number, get_country(reader, disk, ip_number))
    /\ UNCHANGED disk

GetRecord ==
    /\ pc = "Ready"
    /\ \E ip \in Addresses :
          GetRecordReturns(ip, get_record(reader, disk, ip))
    /\ UNCHANGED disk

GetTimeZoneGivenIpAddr ==
    /\ pc = "Ready"
    /\ \E ip \in Addresses :
          GetTimeZoneReturns(
              ip, get_time_zone_given_ip_addr(reader, disk, ip))
    /\ UNCHANGED disk

Next ==
    \/ New
    \/ DetectDatabaseType
    \/ GetCountry
    \/ GetRecord
    \/ GetTimeZoneGivenIpAddr

Spec == Init /\ [][Next]_vars

(***************************************************************************)
(* The free functions and the record decoder on their own: ip_to_number,   *)
(* read_data, DesignatedMarketArea and the decoding of a record buffer,    *)
(* each applied once to arguments drawn from the sets below.               *)
(***************************************************************************)
\* Longest buffer handed to read_data.
MaxBufLen == 3

\* NUL, an ASCII letter, and a byte no UTF-8 sequence holds.
BufferBytes == {0, 72, 255}

\* Every buffer up to MaxBufLen, and those of the tests of read_data:
\* b"Hello\0World", b"\0World" and b"HelloWorld".
Buffers ==
    UNION {[1..n -> BufferBytes] : n \in 0..MaxBufLen}
    \cup {<<72, 101, 108, 108, 111, 0, 87, 111, 114, 108, 100>>,
          <<0, 87, 111, 114, 108, 100>>,
          <<72, 101, 108, 108, 111, 87, 111, 114, 108, 100>>}

Positions == 0..MaxBufLen

\* What the two str::parse calls make of a text: the IPv4 addresses over
\* four octet values, the IPv6 addresses over two segment values, the
\* addresses of the tests, and a text that is no address.
ParsedTexts ==
    {V4(o[1], o[2], o[3], o[4]) : o \in [1..4 -> {0, 1, 128, 255}]}
    \cup {V4(192, 168, 1, 1), V4(1, 32, 0, 0)}
    \cup {V6(x) : x \in [1..8 -> {0, 32769}]}
    \cup {V6(<<8193, 3512, 34211, 0, 0, 35374, 880, 29492>>)}
    \cup {InvalidAddress}

\* Packed DMA values as <<high, low>> limbs, from 0 to u32::MAX.
DmaValues == {<<h, l>> : h \in {0, 12, 255, 65535},
                        l \in {0, 999, 1000, 39426, 65535}}

\* Raw 24-bit coordinates.
RawCoords == {0, 1, 1800000, 2127977, 8388608, 16777000, 16777215}

\* A record buffer that holds the raw coordinates lat and lon.
CoordRecord(lat, lon) ==
    RecordBytes(US_INDEX, << >>, << >>, << >>,
                LE(lat, 3) \o LE(lon, 3) \o <<0, 0, 0>>)

UtilsInit ==
    /\ disk = [exists |-> FALSE, data |-> << >>]
    /\ reader = NoReader
    /\ pc = "Utils"
    /\ last = NoResult

ReadData ==
    /\ pc = "Utils"
    /\ \E buffer \in Buffers, pos \in Positions :
          LET r == read_data(buffer, pos)
          IN  last' = [op |-> "read_data", buffer |-> buffer, pos |-> pos,
                       tag |-> IF r.ok THEN "Ok" ELSE "Panic",
                       new_pos |-> r.pos, data |-> r.data]
    /\ pc' = "Done"
    /\ UNCHANGED <<disk, reader>>

IpToNumber ==
    /\ pc = "Utils"
    /\ \E ip \in ParsedTexts :
          LET r == ip_to_number(ip)
          IN  last' = [op |-> "ip_to_number", arg |-> ip,
                       tag |-> IF r.ok THEN "Ok" ELSE "Panic", val |-> r.val]
    /\ pc' = "Done"
    /\ UNCHANGED <<disk, reader>>

\* dma_code, area_code and the rendering of a packed value, and for a value
\* of three bytes also the split get_record makes of those bytes.
DmaCodes ==
    /\ pc = "Utils"
    /\ \E v \in DmaValues :
          last' = [op |-> "dma", arg |-> v,
                   dma_code |-> dma_code(v), area_code |-> area_code(v),
                   display |-> fmt(v),
                   split |-> IF v[1] < 256
                             THEN DmaFields(EmptyMap,
                                            Fill(0, 6)
                                            \o LE(v[1] * 65536 + v[2], 3), 0)
                             ELSE EmptyMap]
    /\ pc' = "Done"
    /\ UNCHANGED <<disk, reader>>

\* The decoding get_record makes of a 50-byte record buffer.
DecodeCoordinates ==
    /\ pc = "Utils"
    /\ \E lat \in RawCoords, lon \in RawCoords :
          LET r == DecodeRecord(CITY_EDITION_REV1, CoordRecord(lat, lon))
          IN  last' = [op |-> "decode", lat |-> lat, lon |-> lon,
                       tag |-> IF r.ok THEN "Ok" ELSE "Panic",
                       record |-> r.record]
    /\ pc' = "Done"
    /\ UNCHANGED <<disk, reader>>

(***************************************************************************)
(* Country: the generated code tables.  build.rs writes one match arm per  *)
(* line of a data file; variant i of the enum (counted from 1) belongs to  *)
(* line i.  `data` is the sequence of the lines of the data file of        *)
(* alphabetic_code_2 or of alphabetic_code_3.                              *)
(***************************************************************************)
\* Fault injection for C23: the arms paired with the next variant.
alphabetic_code_NextVariant(data, country) == data[(country % Len(data)) + 1]

\* alphabetic_code_2 / alphabetic_code_3: `Country::{enum_names[i]} => "{code}"`.
alphabetic_code(data, country) == data[country]

\* from_alphabetic_code_2 / from_alphabetic_code_3:
\* `"{code}" => Some(Country::{enum_names[i]})` per line, the first arm that
\* matches taken, then `_ => None`.
from_alphabetic_code(data, value) ==
    LET arms == {i \in 1..Len(data) : data[i] = value}
    IN  IF arms = {} THEN None
        ELSE Some(CHOOSE i \in arms : \A j \in arms : i <= j)

\* Number of lines of a model data file.
MaxCountries == 3

CodeNames == {"AD", "AE", "AF"}

\* Data files: every file of up to MaxCountries lines over CodeNames, lines
\* that repeat a code included, and the codes of COUNTRY_CODES_THREE from
\* index 1 on.
CodeTables ==
    UNION {[1..n -> CodeNames] : n \in 1..MaxCountries}
    \cup {Tail(COUNTRY_CODES_THREE)}

CodeArgs == CodeNames \cup {"USA", "LBN", "ZZ", ""}

\* A code looked up, and the code of the country found.
CountryCodes ==
    /\ pc = "Utils"
    /\ \E data \in CodeTables, value \in CodeArgs :
          LET country == from_alphabetic_code(data, value)
          IN  last' = [op |-> "country_codes", data |-> data, arg |-> value,
                       country |-> country,
                       code |-> IF country = None THEN None
                                ELSE Some(alphabetic_code(data, country[1]))]
    /\ pc' = "Done"
    /\ UNCHANGED <<disk, reader>>

\* The FULL_RECORD_LENGTH bytes get_record reads of a record.
RecordBuffer(bytes) == SubSeq(bytes, 1, FULL_RECORD_LENGTH)

\* Lengths of a city name that bring the fields behind it to the end of
\* the buffer.
CityLengths == {0, 37, 38, 40, 41, 46, 47, 48}

\* Record buffers: every value of the country byte before empty strings, and
\* for two countries every city length of CityLengths.
RecordBuffers ==
    {RecordBuffer(RecordBytes(c, << >>, << >>, << >>,
                              <<105, 120, 32, 209, 147, 9, 2, 154, 12>>)) :
        c \in 0..255}
    \cup {RecordBuffer(RecordBytes(c, << >>, Fill(66, n), << >>,
                                   <<105, 120, 32, 209, 147, 9, 2, 154, 12>>)) :
             c \in {77, US_INDEX}, n \in CityLengths}

\* The decoding get_record makes of a record buffer of a City database.
DecodeBuffer ==
    /\ pc = "Utils"
    /\ \E buffer \in RecordBuffers :
          LET r == DecodeRecord(CITY_EDITION_REV1, buffer)
          IN  last' = [op |-> "decode_buffer", buffer |-> buffer,
                       tag |-> IF r.ok THEN "Ok" ELSE "Panic",
                       record |-> r.record]
    /\ pc' = "Done"
    /\ UNCHANGED <<disk, reader>>

UtilsNext ==
    \/ ReadData
    \/ IpToNumber
    \/ DmaCodes
    \/ DecodeCoordinates
    \/ CountryCodes
    \/ DecodeBuffer

UtilsSpec == UtilsInit /\ [][UtilsNext]_vars

(***************************************************************************)
(* The command line program: main.rs with the `cli` feature.  What a run   *)
(* leaves is its exit status, whether it wrote an error message and        *)
(* whether it printed a record.                                            *)
(***************************************************************************)
\* The exit status of a process that fails in clap's argument parsing.
ClapUsageExit == 2
\* The exit status of a process whose main returned Err.
MainErrExit == 1
\* The exit status of a process that panicked.
PanicExit == 101

Exited(code, message, printed) ==
    [code |-> code, message |-> message, printed |-> printed]

\* `let record = geo_ip.get_record(&args.target); pretty_print_dict(record);`
\* with the outcome r of get_record, then `Ok(())`.
PrettyPrinted(r) ==
    IF r.tag = "Panic" THEN Exited(PanicExit, TRUE, FALSE)
    ELSE Exited(0, FALSE, TRUE)

\* `let mut geo_ip = GeoIpReader::<File>::new(..).unwrap();` and the lookup.
LookedUp(opened, target, file) ==
    IF opened.res # "Ok" THEN Exited(PanicExit, TRUE, FALSE)
    ELSE PrettyPrinted(get_record(opened.self, file, target))

\* main: `target` is the --target argument as the two parses see it, kind
\* "absent" when the option is not given (Cli::parse reports the required
\* argument and exits) and kind "empty" for the empty text.
main(target, file) ==
    CASE target.kind = "absent" -> Exited(ClapUsageExit, TRUE, FALSE)
      [] target.kind = "empty" -> Exited(MainErrExit, TRUE, FALSE)
      [] target.kind \in {"v4", "v6"} -> LookedUp(new(file), target, file)
      [] OTHER -> Exited(0, FALSE, FALSE)

Targets ==
    Addresses \cup {[kind |-> "absent", parts |-> << >>],
                    [kind |-> "empty", parts |-> << >>]}

CliInit ==
    /\ disk \in Databases
    /\ reader = NoReader
    /\ pc = "Shell"
    /\ last = NoResult

Main ==
    /\ pc = "Shell"
    /\ \E target \in Targets :
          LET r == main(target, disk)
          IN  last' = [op |-> "main", target |-> target, code |-> r.code,
                       message |-> r.message, printed |-> r.printed]
    /\ pc' = "Exited"
    /\ UNCHANGED <<disk, reader>>

CliNext == Main

CliSpec == CliInit /\ [][CliNext]_vars

(***************************************************************************)
(* The claims.                                                             *)
(***************************************************************************)
\* The byte of `data` at the 0-based offset `at`.
ByteAt(data, at) == data[at + 1]

\* The unsigned little-endian 24-bit value at the 0-based offset `at`.
U24At(data, at) ==
    ByteAt(data, at) + 256 * ByteAt(data, at + 1) + 65536 * ByteAt(data, at + 2)

IsEmptyMap(map) == DOMAIN map = {}

\* C1: get_country returns either an offset >= database_segments or
\* Err(CorruptDatabase) for every database and address: nothing else, and
\* never a value below database_segments.
C1_OffsetOrCorrupt ==
    last.op = "get_country" =>
        \/ last.tag = "Err"
        \/ last.tag = "Ok" /\ last.val >= last.before.database_segments

\* The reference descent of C2.
\* Bit `depth` of the u32 address, by halving.
RefBit(ip_number, depth) ==
    CASE depth >= 32 -> 0
      [] depth >= 16 -> (ip_number[1] \div (2 ^ (depth - 16))) % 2
      [] OTHER -> (ip_number[2] \div (2 ^ depth)) % 2

\* The bits depth seek_depth, ..., 0 of the address, in that order.
RefBits(ip_number, seek_depth) ==
    [k \in 1..(seek_depth + 1) |-> RefBit(ip_number, seek_depth + 1 - k)]

\* The unsigned little-endian value of the `width` bytes at offset `at`.
RefChild(data, at, width) ==
    IF width = 3 THEN U24At(data, at)
    ELSE U24At(data, at) + 16777216 * ByteAt(data, at + 3)

RECURSIVE RefDescent(_, _, _, _, _)
RefDescent(data, width, base, bits, index) ==
    IF bits = << >> THEN <<"Err", 0>>
    ELSE
    LET at == 2 * width * index
    IN  IF at + 2 * width > Len(data) THEN <<"Panic", 0>>
        ELSE
        LET left == RefChild(data, at, width)
            right == RefChild(data, at + width, width)
            chosen == IF Head(bits) = 1 THEN right ELSE left
        IN  IF chosen >= base THEN <<"Ok", chosen>>
            ELSE RefDescent(data, width, base, Tail(bits), chosen)

\* C2: get_country is the reference descent: from node 0, one node of two
\* little-endian children per address bit, most significant bit first, the
\* right child on a 1; the first chosen child >= database_segments is the
\* result, CorruptDatabase when the bits run out (and the call fails exactly
\* when a node of the path is not in the file).
C2_ReferenceDescent ==
    last.op = "get_country" =>
        <<last.tag, last.val>> =
            RefDescent(disk.data, last.before.record_length,
                       last.before.database_segments,
                       RefBits(last.arg, last.seek_depth), 0)

C2_Witness ==
    /\ last.op = "get_country"
    /\ last.tag = "Ok"
    /\ last.reads >= 2
    /\ last.val > last.before.database_segments

\* C3: get_record searches the tree with seek_depth 127 for an IPv6 address
\* and with seek_depth 31 for an IPv4 address.
C3_SeekDepthByFamily ==
    (last.op = "get_record" /\ last.arg.kind \in {"v4", "v6"}) =>
        /\ last.descent.tag # "None"
        /\ last.descent.seek_depth = IF last.arg.kind = "v6" THEN 127 ELSE 31

\* The trailer scan of C4 and C5: window i starts 3 + i bytes before the end.
IsMarkerAt(data, at) ==
    /\ at >= 0
    /\ at + 3 <= Len(data)
    /\ \A j \in 0..2 : ByteAt(data, at + j) = 255

MarkerWindows(data) == {i \in 0..19 : IsMarkerAt(data, Len(data) - 3 - i)}

FirstMarker(data) ==
    CHOOSE i \in MarkerWindows(data) : \A j \in MarkerWindows(data) : i <= j

\* C4: when the detector finds the marker followed by byte b, the edition is
\* b - 105 if b >= 106 else b, and segment base and record width follow the
\* edition: 7 -> 16700000/3, 3 -> 16000000/3, {6, 2, 30, 9, 21} -> the next
\* three bytes as little-endian u24 / 3, {5, 4} -> the same / 4, every other
\* edition -> 16776960/3.
C4_EditionTable ==
    (/\ last.op \in {"new", "detect_database_type"}
     /\ pc = "Ready"
     /\ MarkerWindows(disk.data) # {}) =>
        LET at == Len(disk.data) - 3 - FirstMarker(disk.data)
            b == ByteAt(disk.data, at + 3)
            edition == IF b >= 106 THEN b - 105 ELSE b
            next3 == U24At(disk.data, at + 4)
            expect ==
                CASE edition = 7 -> <<16700000, 3>>
                  [] edition = 3 -> <<16000000, 3>>
                  [] edition \in {6, 2, 30, 9, 21} -> <<next3, 3>>
                  [] edition \in {5, 4} -> <<next3, 4>>
                  [] OTHER -> <<16776960, 3>>
        IN  /\ reader.database_type = edition
            /\ <<reader.database_segments, reader.record_length>> = expect

C4_Witness ==
    /\ last.op = "new"
    /\ pc = "Ready"
    /\ MarkerWindows(disk.data) # {}
    /\ ByteAt(disk.data, Len(disk.data) - FirstMarker(disk.data)) >= 106
    /\ reader.record_length = 4

\* C5: for a file none of whose 20 trailer windows is the marker, the
\* detector succeeds and leaves edition 1, record width 3, segment base
\* 16776960.
C5_NoMarkerDefaults ==
    (/\ last.op = "new"
     /\ disk.exists
     /\ Len(disk.data) >= 22
     /\ MarkerWindows(disk.data) = {}) =>
        /\ last.tag = "Ok"
        /\ reader.database_type = 1
        /\ reader.record_length = 3
        /\ reader.database_segments = 16776960

\* C6: once open, no call changes edition, record width or segment base,
\* and the record width is 3 or 4.
C6_FieldsFixed ==
    [][/\ pc' = "Ready" => reader'.record_length \in {3, 4}
       /\ (pc = "Ready" /\ pc' = "Ready") =>
             /\ reader'.database_type = reader.database_type
             /\ reader'.record_length = reader.record_length
             /\ reader'.database_segments = reader.database_segments]_vars

C6_Witness ==
    /\ last.op = "detect_database_type"
    /\ last.tag = "Ok"
    /\ last.before.pos > 0
    /\ reader.record_length = 4

\* C7: a lookup's result does not depend on the lookups made before it: it
\* is what a freshly opened reader returns for the same address.
C7_HistoryIndependent ==
    /\ last.op = "get_record" =>
          LET fresh == get_record(new(disk).self, disk, last.arg)
          IN  /\ last.tag = fresh.tag
              /\ last.record = fresh.record
    /\ last.op = "get_country" =>
          LET fresh == get_country(new(disk).self, disk, last.arg)
          IN  /\ last.tag = fresh.tag
              /\ last.val = fresh.val

C7_Witness ==
    /\ last.op = "get_record"
    /\ last.tag = "Ok"
    /\ ~IsEmptyMap(last.record)
    /\ last.before.pos > 0
    /\ reader.netmask = 1

\* C8: when the descent ends at database_segments itself, get_record
\* returns the empty map, reads no record bytes and leaves the stream
\* where it was.
C8_NoRecordAtSegmentBase ==
    (/\ last.op = "get_record"
     /\ last.descent.tag = "Ok"
     /\ last.descent.val = last.before.database_segments) =>
        /\ last.tag = "Ok"
        /\ IsEmptyMap(last.record)
        /\ last.record_reads = << >>
        /\ pc = "Ready"
        /\ reader.fp.pos = last.before.pos

C8_Witness ==
    /\ last.op = "get_record"
    /\ last.descent.tag = "Ok"
    /\ last.descent.val = last.before.database_segments
    /\ last.before.pos > 0

\* The record the last get_record was sent to, for C9 and C10.
RefRecordAt ==
    last.descent.val
        + (2 * last.before.record_length - 1) * last.before.database_segments

RefBuffer == SubSeq(disk.data, RefRecordAt + 1, RefRecordAt + 50)

\* The 0-based index of the first zero byte of buf at or after `from`.
RefNul(buf, from) ==
    CHOOSE k \in from..49 :
        ByteAt(buf, k) = 0 /\ \A j \in from..(k - 1) : ByteAt(buf, j) # 0

\* The string held by the bytes from..to-1 of buf; absent when empty.
RefText(buf, from, to) ==
    IF to = from THEN None
    ELSE Some(from_utf8_lossy([k \in 1..(to - from) |-> ByteAt(buf, from + k - 1)]))

\* Where the coordinates of the record in buf start.
RefCoordBase(buf) == RefNul(buf, RefNul(buf, RefNul(buf, 1) + 1) + 1) + 1

\* C9: for a terminal value above database_segments get_record reads 50
\* bytes at value + (2 * record_length - 1) * database_segments, and a
\* decoded record has byte 0 as country index, region, city and postal code
\* as consecutive NUL-terminated strings from byte 1, then latitude and
\* longitude as unsigned little-endian 24-bit values, each raw/10000 - 180.
C9_RecordLayout ==
    (/\ last.op = "get_record"
     /\ last.descent.tag = "Ok"
     /\ last.descent.val > last.before.database_segments) =>
        /\ last.record_reads = <<<<RefRecordAt, 50>>>>
        /\ last.tag = "Ok" =>
              LET buf == RefBuffer
                  z1 == RefNul(buf, 1)
                  z2 == RefNul(buf, z1 + 1)
                  z3 == RefNul(buf, z2 + 1)
              IN  /\ last.record["country_code"] =
                         Some(COUNTRY_CODES_TWO(ByteAt(buf, 0)))
                  /\ last.record["country_code3"] =
                         Some(COUNTRY_CODES_THREE[ByteAt(buf, 0) + 1])
                  /\ last.record["region_code"] = RefText(buf, 1, z1)
                  /\ last.record["city"] = RefText(buf, z1 + 1, z2)
                  /\ last.record["postal_code"] = RefText(buf, z2 + 1, z3)
                  /\ last.record["latitude"] =
                         Some(U24At(buf, z3 + 1) - 1800000)
                  /\ last.record["longitude"] =
                         Some(U24At(buf, z3 + 4) - 1800000)

C9_Witness ==
    /\ last.op = "get_record"
    /\ last.tag = "Ok"
    /\ ~IsEmptyMap(last.record)
    /\ last.record["region_code"] # None
    /\ last.record["city"] # None
    /\ last.record["postal_code"] # None
    /\ last.record["latitude"] = Some(16711679 - 1800000)

\* C10: a decoded record has a DMA exactly when the edition is City-rev1 (2)
\* or City-rev1-v6 (30) and the country is the United States; it is then
\* the unsigned little-endian 24-bit value v at coord_base + 6, with
\* dma_code v / 1000 and area_code v mod 1000; otherwise the DMA is absent
\* (no metro code, both codes 0).
C10_DmaPresence ==
    (/\ last.op = "get_record"
     /\ last.tag = "Ok"
     /\ ~IsEmptyMap(last.record)) =>
        LET v == U24At(RefBuffer, RefCoordBase(RefBuffer) + 6)
            present == last.record["metro_code"] # None
        IN  /\ present <=>
                  /\ last.before.database_type \in {2, 30}
                  /\ last.record["country_code3"] = Some("USA")
            /\ present =>
                  /\ parse_i32(last.record["dma_code"][1]) = v \div 1000
                  /\ parse_i32(last.record["area_code"][1]) = v % 1000
            /\ ~present =>
                  /\ last.record["dma_code"] = Some(<<0>>)
                  /\ last.record["area_code"] = Some(<<0>>)

C10_Witness ==
    /\ last.op = "get_record"
    /\ last.tag = "Ok"
    /\ ~IsEmptyMap(last.record)
    /\ last.before.database_type = 30
    /\ last.record["metro_code"] # None
    /\ parse_i32(last.record["dma_code"][1]) = 825

(***************************************************************************)
(* C11: the time zone of a decoded record is the entry of the (country     *)
(* alpha-2, region) mapping, probed with "default" when the region is      *)
(* absent; it is the empty text when the mapping has no entry, and it is   *)
(* never absent.  get_time_zone_given_ip_addr returns that field.          *)
(***************************************************************************)
RefZoneKey(record) ==
    <<record["country_code"][1],
      IF record["region_code"] = None THEN DefaultKey
      ELSE record["region_code"][1]>>

RefZone(record) ==
    IF \E key \in DOMAIN TIME_ZONES : key = RefZoneKey(record)
    THEN TIME_ZONES[RefZoneKey(record)] ELSE ""

C11_TimeZoneFromTable ==
    /\ (/\ last.op = "get_record"
        /\ last.tag = "Ok"
        /\ ~IsEmptyMap(last.record)) =>
           /\ "time_zone" \in DOMAIN last.record
           /\ last.record["time_zone"] = Some(RefZone(last.record))
    /\ (/\ last.op = "get_time_zone_given_ip_addr"
        /\ last.tag = "Ok"
        /\ last.val # None) =>
           LET fresh == get_record(new(disk).self, disk, last.arg)
           IN  /\ ~IsEmptyMap(fresh.record)
               /\ last.val = Some(RefZone(fresh.record))

\* A record without region whose country has a default entry.
C11_Witness ==
    /\ last.op = "get_record"
    /\ last.tag = "Ok"
    /\ ~IsEmptyMap(last.record)
    /\ last.record["region_code"] = None
    /\ last.record["time_zone"] = Some("Europe/London")

(***************************************************************************)
(* C12: when a zero byte occurs in the buffer at or after pos, read_data   *)
(* returns the index of the first such byte, with Some(text of the bytes   *)
(* from pos up to it) when that index is above pos, and (pos, None) when   *)
(* the byte at pos is zero.                                                *)
(***************************************************************************)
\* The 0-based indices of the zero bytes of buffer at or after pos.
NulsFrom(buffer, pos) ==
    {k \in pos..(Len(buffer) - 1) : ByteAt(buffer, k) = 0}

FirstNul(buffer, pos) ==
    CHOOSE k \in NulsFrom(buffer, pos) : \A j \in NulsFrom(buffer, pos) : k <= j

C12_ReadDataTerminated ==
    (last.op = "read_data" /\ NulsFrom(last.buffer, last.pos) # {}) =>
        /\ last.tag = "Ok"
        /\ last.new_pos = FirstNul(last.buffer, last.pos)
        /\ last.data = RefText(last.buffer, last.pos,
                               FirstNul(last.buffer, last.pos))
        /\ ByteAt(last.buffer, last.pos) = 0 =>
              last.new_pos = last.pos /\ last.data = None
        /\ last.new_pos > last.pos => last.data # None

\* b"Hello\0World" read from 0: (5, Some("Hello")).
C12_Witness ==
    /\ last.op = "read_data"
    /\ last.buffer = <<72, 101, 108, 108, 111, 0, 87, 111, 114, 108, 100>>
    /\ last.pos = 0
    /\ last.new_pos = 5
    /\ last.data = Some(<<72, 101, 108, 108, 111>>)

(***************************************************************************)
(* C13: when no zero byte occurs in the buffer at or after pos, read_data  *)
(* fails with the error MalformedRecord.                                   *)
(***************************************************************************)
C13_MalformedRecordError ==
    (last.op = "read_data" /\ NulsFrom(last.buffer, last.pos) = {}) =>
        last.tag = "Err"

\* C13 as amended: when no zero byte occurs in the buffer at or after pos,
\* read_data panics on the index that leaves the buffer; it returns neither
\* a position nor a string.
C13_PanicsWithoutTerminator ==
    (last.op = "read_data" /\ NulsFrom(last.buffer, last.pos) = {}) =>
        last.tag = "Panic"

\* b"HelloWorld" read from 0.
C13_Witness ==
    /\ last.op = "read_data"
    /\ last.buffer = <<72, 101, 108, 108, 111, 87, 111, 114, 108, 100>>
    /\ last.pos = 0
    /\ last.tag = "Panic"

(***************************************************************************)
(* C14: for an IPv4 address a.b.c.d ip_to_number returns                   *)
(* (a<<24)|(b<<16)|(c<<8)|d: bit i of the result is bit i mod 8 of the     *)
(* octet 3 - i div 8 below bit 32, and 0 from bit 32 on.                   *)
(***************************************************************************)
BitOf(x, i) == (x \div Pow2(i)) % 2

\* Bit i (0 the least significant) of a value held as eight 16-bit limbs.
LimbBit(n, i) == BitOf(n[8 - (i \div 16)], i % 16)

IsU128(n) == Len(n) = 8 /\ \A k \in 1..8 : n[k] \in 0..65535

C14_Ipv4Value ==
    (last.op = "ip_to_number" /\ last.arg.kind = "v4") =>
        /\ last.tag = "Ok"
        /\ IsU128(last.val)
        /\ \A i \in 0..127 :
              LimbBit(last.val, i) =
                  IF i < 32 THEN BitOf(last.arg.parts[4 - (i \div 8)], i % 8)
                  ELSE 0

\* "192.168.1.1" gives 3232235777 = 0xC0A8_0101.
C14_Witness ==
    /\ last.op = "ip_to_number"
    /\ last.arg = V4(192, 168, 1, 1)
    /\ last.val = <<0, 0, 0, 0, 0, 0, 49320, 257>>

(***************************************************************************)
(* C15: for an IPv6 address with segments x0..x7 ip_to_number returns      *)
(* (x0<<112)|(x1<<96)|(x2<<64)|x3.                                         *)
(***************************************************************************)
C15_Ipv6Value ==
    (last.op = "ip_to_number" /\ last.arg.kind = "v6") =>
        /\ last.tag = "Ok"
        /\ IsU128(last.val)
        /\ \A i \in 0..127 :
              LimbBit(last.val, i) =
                  CASE i >= 112 -> BitOf(last.arg.parts[1], i - 112)
                    [] i \in 96..111 -> BitOf(last.arg.parts[2], i - 96)
                    [] i \in 64..79 -> BitOf(last.arg.parts[3], i - 64)
                    [] i \in 0..15 -> BitOf(last.arg.parts[4], i)
                    [] OTHER -> 0

\* "2001:0db8:85a3:0000:0000:8a2e:0370:7334" gives
\* 42540766411283223938465490629124161536 = 0x2001_0db8_0000_85a3 << 64.
C15_Witness ==
    /\ last.op = "ip_to_number"
    /\ last.arg = V6(<<8193, 3512, 34211, 0, 0, 35374, 880, 29492>>)
    /\ last.val = <<8193, 3512, 0, 34211, 0, 0, 0, 0>>

(***************************************************************************)
(* C16: for an IPv6 text ip_to_number yields the 128-bit value of the      *)
(* address, built from all eight segments in big-endian order.             *)
(***************************************************************************)
C16_FullIpv6Value ==
    (last.op = "ip_to_number" /\ last.arg.kind = "v6") =>
        /\ last.tag = "Ok"
        /\ last.val = last.arg.parts

(***************************************************************************)
(* C17: for a text that is neither an IPv4 nor an IPv6 address the parser  *)
(* fails with the error InvalidAddress, and get_record surfaces that       *)
(* failure without any tree descent or record read.                        *)
(***************************************************************************)
C17_InvalidAddressError ==
    (last.op = "get_record" /\ last.arg.kind = "invalid") =>
        /\ last.tag = "Err"
        /\ last.descent = NoDescent
        /\ last.record_reads = << >>

\* C17 as amended: for a text that is neither an IPv4 nor an IPv6 address
\* ip_to_number panics ("Invalid IP address: ..."), and get_record on such a
\* text panics with it, without any tree descent or record read;
\* get_time_zone_given_ip_addr panics likewise.
C17_InvalidAddressPanics ==
    /\ (last.op = "get_record" /\ last.arg.kind = "invalid") =>
           /\ last.tag = "Panic"
           /\ last.descent = NoDescent
           /\ last.record_reads = << >>
           /\ IsEmptyMap(last.record)
    /\ (last.op = "get_time_zone_given_ip_addr"
        /\ last.arg.kind = "invalid") => last.tag = "Panic"

C17_Witness ==
    /\ last.op = "get_record"
    /\ last.arg = InvalidAddress
    /\ last.tag = "Panic"
    /\ last.before.pos > 0

(***************************************************************************)
(* C18: new returns Err(OpenFileError) whenever the file cannot be opened  *)
(* or read, a failed read or seek of the detector included, and            *)
(* detect_database_type reports such a failure as an error result: neither *)
(* ends in a panic.                                                        *)
(***************************************************************************)
C18_OpenFailuresAreErrors ==
    /\ last.op = "new" =>
           /\ last.tag \in {"Ok", "Err"}
           /\ ~disk.exists => last.tag = "Err"
    /\ last.op = "detect_database_type" => last.tag \in {"Ok", "Err"}

(***************************************************************************)
(* C19: dma_code(v) * 1000 + area_code(v) = v with dma_code(v) = v / 1000  *)
(* and 0 <= area_code(v) = v mod 1000 < 1000, for the struct and for the   *)
(* two texts get_record makes of a three-byte value.                       *)
(***************************************************************************)
\* q * 1000 + r as <<high, low>> limbs.
Packed(q, r) ==
    <<(q \div 65536) * 1000 + ((q % 65536) * 1000 + r) \div 65536,
      ((q % 65536) * 1000 + r) % 65536>>

C19_DmaRoundTrip ==
    last.op = "dma" =>
        /\ last.area_code \in 0..999
        /\ last.dma_code >= 0
        /\ Packed(last.dma_code, last.area_code) = last.arg
        /\ ~IsEmptyMap(last.split) =>
              /\ parse_i32(last.split["area_code"][1]) \in 0..999
              /\ Packed(parse_i32(last.split["dma_code"][1]),
                        parse_i32(last.split["area_code"][1])) = last.arg

\* 825858 = 12 * 65536 + 39426 splits into 825 and 858.
C19_Witness ==
    /\ last.op = "dma"
    /\ last.arg = <<12, 39426>>
    /\ last.dma_code = 825
    /\ last.area_code = 858
    /\ last.split["dma_code"] = Some(<<8, 2, 5>>)
    /\ last.split["area_code"] = Some(<<8, 5, 8>>)

(***************************************************************************)
(* C20: the latitude and longitude decoded from a record lie between       *)
(* -180.0 and 1497.7 degrees: between -1800000 and 14977000 in units of    *)
(* 1/10000 of a degree.                                                    *)
(***************************************************************************)
C20_CoordinateRange ==
    (last.op = "decode" /\ last.tag = "Ok") =>
        /\ last.record["latitude"][1] \in -1800000..14977000
        /\ last.record["longitude"][1] \in -1800000..14977000

\* C20 as amended: the latitude and longitude decoded from a record are
\* raw/10000 - 180 for the unsigned 24-bit raw value and lie between -180.0
\* and 1497.7215 degrees (-1800000 and 14977215 in units of 1/10000).
C20_CoordinateRangeExact ==
    (last.op = "decode" /\ last.tag = "Ok") =>
        /\ last.record["latitude"] = Some(last.lat - 1800000)
        /\ last.record["longitude"] = Some(last.lon - 1800000)
        /\ last.record["latitude"][1] \in -1800000..14977215
        /\ last.record["longitude"][1] \in -1800000..14977215

\* Both ends of the range are decoded.
C20_Witness ==
    /\ last.op = "decode"
    /\ last.tag = "Ok"
    /\ last.record["latitude"] = Some(14977215)
    /\ last.record["longitude"] = Some(-1800000)


(***************************************************************************)
(* C21: the command line program exits with status 0 when the lookup       *)
(* succeeded and its record was printed, and with a non-zero status and a  *)
(* message when the target is missing or parses neither as an IPv4 nor as  *)
(* an IPv6 address.                                                        *)
(***************************************************************************)
C21_ExitStatus ==
    last.op = "main" =>
       /\ last.printed => last.code = 0
       /\ last.target.kind \in {"absent", "empty", "invalid"} =>
              last.code # 0 /\ last.message

(***************************************************************************)
(* C22: rendering a DMA yields the metro name its dma_code maps to and     *)
(* "Unknown DMA" for a dma_code without entry, both in the Display of      *)
(* DesignatedMarketArea and in the metro name get_record reports.          *)
(***************************************************************************)
RefMetroName(code) ==
    IF DMAS_get(code) = None THEN "Unknown DMA" ELSE DMAS_get(code)[1]

C22_DmaRendering ==
    last.op = "dma" =>
        /\ last.display = RefMetroName(last.dma_code)
        /\ ~IsEmptyMap(last.split) =>
               last.split["metro_code"] =
                   Some(RefMetroName(parse_i32(last.split["dma_code"][1])))

\* C22 as the code has it: Display falls back to "Unknown DMA", while the
\* metro name of get_record is the mapped name, or the empty text for a
\* dma_code without entry.
C22_DmaRenderingByPath ==
    last.op = "dma" =>
        /\ last.display = RefMetroName(last.dma_code)
        /\ ~IsEmptyMap(last.split) =>
               last.split["metro_code"] =
                   Some(IF DMAS_get(parse_i32(last.split["dma_code"][1])) = None
                        THEN ""
                        ELSE DMAS_get(parse_i32(last.split["dma_code"][1]))[1])

\* 65535 has dma_code 65, which has no entry.
C22_Witness ==
    /\ last.op = "dma"
    /\ last.arg = <<0, 65535>>
    /\ last.display = "Unknown DMA"
    /\ last.split["metro_code"] = Some("")

(***************************************************************************)
(* C23: for every code c of a code table, the code of the country that     *)
(* from_alphabetic_code finds for c is c again, for the two-letter and the *)
(* three-letter table alike; a code the table does not hold yields None.   *)
(***************************************************************************)
C23_CodeRoundTrip ==
    last.op = "country_codes" =>
        IF \E i \in 1..Len(last.data) : last.data[i] = last.arg
        THEN /\ last.country # None
             /\ last.country[1] \in 1..Len(last.data)
             /\ last.code = Some(last.arg)
        ELSE last.country = None /\ last.code = None

\* "USA" in the table of the repository, found at a variant beyond the first.
C23_Witness ==
    /\ last.op = "country_codes"
    /\ last.arg = "USA"
    /\ last.country # None
    /\ last.country[1] > 1
    /\ last.code = Some("USA")

(***************************************************************************)
(* C24: during a traversal every node read is made on the reader's own     *)
(* byte source; no new reader is created (no path is opened again, no      *)
(* detector is run again) for a node.                                      *)
(***************************************************************************)
C24_OwnSourceOnly ==
    /\ last.op = "get_country" => last.opens = 0
    /\ last.op = "get_record" => last.descent.opens = 0

(***************************************************************************)
(* C25: a lookup makes at most seek_depth + 1 node reads and at most one   *)
(* read of FULL_RECORD_LENGTH bytes for the record, and no other read of   *)
(* the database.                                                           *)
(***************************************************************************)
C25_BoundedReads ==
    /\ last.op = "get_country" =>
          /\ last.reads <= last.seek_depth + 1
          /\ last.detector_reads = 0
    /\ last.op = "get_record" =>
          /\ last.descent.reads <= last.descent.seek_depth + 1
          /\ Len(last.record_reads) <= 1
          /\ \A k \in 1..Len(last.record_reads) :
                 last.record_reads[k][2] = FULL_RECORD_LENGTH
          /\ last.descent.detector_reads = 0

(***************************************************************************)
(* C26: the detector leaves the stream position as it found it, whatever   *)
(* the starting position and whatever the trailer holds: a marker found in *)
(* any window, or none.                                                    *)
(***************************************************************************)
C26_PositionRestored ==
    /\ (last.op = "detect_database_type" /\ last.tag = "Ok") =>
           reader.fp.pos = last.before.pos
    /\ (last.op = "new" /\ last.tag = "Ok") => reader.fp.pos = 0

\* A re-detection away from the start of the file, its marker found after
\* windows without one.
C26_Witness ==
    /\ last.op = "detect_database_type"
    /\ last.tag = "Ok"
    /\ last.before.pos > 0
    /\ reader.fp.pos = last.before.pos
    /\ MarkerWindows(disk.data) # {}
    /\ FirstMarker(disk.data) > 4

(***************************************************************************)
(* C27: the scan examines the three-byte windows that start 3, 4, ..., 22  *)
(* bytes before the end of the file, in this order and at most 20 of them, *)
(* and stops at the first that is FF FF FF: of several markers the one     *)
(* nearest the end of the file gives the edition, and a marker that starts *)
(* more than 22 bytes before the end is not used.                          *)
(***************************************************************************)
C27_ScanOrder ==
    (last.op \in {"new", "detect_database_type"} /\ last.tag = "Ok") =>
        IF \E i \in 0..(STRUCTURE_INFO_MAX_SIZE - 1) :
               IsMarkerAt(disk.data, Len(disk.data) - 3 - i)
        THEN LET nearest == FirstMarker(disk.data)
                 b == ByteAt(disk.data, Len(disk.data) - nearest)
                 edition == IF b >= 106 THEN b - 105 ELSE b
             IN  /\ reader.database_type = edition
                 /\ last.reads = (nearest + 1) + 1
                                  + (IF edition \in SegmentEditions THEN 1 ELSE 0)
        ELSE /\ last.reads = STRUCTURE_INFO_MAX_SIZE
             /\ reader.database_type = COUNTRY_EDITION

\* Two markers in the windows of the scan, followed by different edition
\* bytes: the edition is the one after the marker nearest the end.
C27_Witness ==
    /\ last.op = "new"
    /\ last.tag = "Ok"
    /\ \E i, j \in MarkerWindows(disk.data) :
          /\ j >= i + 4
          /\ i = FirstMarker(disk.data)
          /\ ByteAt(disk.data, Len(disk.data) - j)
                 # ByteAt(disk.data, Len(disk.data) - i)
          /\ reader.database_type = ByteAt(disk.data, Len(disk.data) - i)

(***************************************************************************)
(* C28: for every value 0..255 of the country byte of a record, each       *)
(* lookup the decoder makes in a per-country table yields a value or       *)
(* nothing and never fails.                                                *)
(***************************************************************************)
C28_TablesTotal ==
    (/\ last.op = "decode_buffer"
     /\ \A k \in 2..4 : last.buffer[k] = 0) =>
        /\ last.tag = "Ok"
        /\ \A key \in {"country_code", "country_code3", "country_name",
                        "continent"} : key \in DOMAIN last.record

(***************************************************************************)
(* C29: a lookup that fails (invalid address, CorruptDatabase, no record,  *)
(* malformed record) returns no partly filled record and leaves the reader *)
(* Ready, with edition, record width and segment base as before, which are *)
(* those of a freshly opened reader.                                       *)
(***************************************************************************)
C29_FailureLeavesReady ==
    (/\ last.op = "get_record"
     /\ last.tag # "Ok" \/ IsEmptyMap(last.record)) =>
        /\ IsEmptyMap(last.record)
        /\ pc = "Ready"
        /\ reader.database_type = last.before.database_type
        /\ reader.record_length = last.before.record_length
        /\ reader.database_segments = last.before.database_segments
        /\ reader.database_type = new(disk).self.database_type
        /\ reader.database_segments = new(disk).self.database_segments

(***************************************************************************)
(* C30: whatever the FULL_RECORD_LENGTH bytes of the buffer hold, every    *)
(* index the decoder uses is inside the buffer: the three string scans,    *)
(* the six coordinate bytes and the three DMA bytes.  An index beyond the  *)
(* buffer ends the decoding with a panic, so the claim is that none        *)
(* occurs for a country byte the tables hold.                              *)
(***************************************************************************)
C30_InsideBuffer ==
    (/\ last.op = "decode_buffer"
     /\ Len(last.buffer) = FULL_RECORD_LENGTH
     /\ TableIndexOk(last.buffer[1])) =>
        last.tag = "Ok"

====
